---- MODULE Spec2Model ----
(***************************************************************************)
(* Result aggregation and diagnostics core of the validation engine        *)
(* (deno/lib/helpers/parseUtil.ts): the status tracker ParseStatus, the    *)
(* mergers mergeArray / mergeObjectSync / mergeObjectAsync and the issue   *)
(* factory makeIssue / addIssueToContext.                                  *)
(*                                                                         *)
(* Encoding of JavaScript values:                                          *)
(*   - a parse result is a record; INVALID has the single field status,    *)
(*     OK(v) and DIRTY(v) have the fields status and value;                *)
(*   - an optional argument is a set: {} when it is not given (undefined), *)
(*     {x} when it is given with value x;                                  *)
(*   - the value undefined of a child result is the string Undefined;      *)
(*   - an array is a sequence, an object a function from its own property  *)
(*     names to their values; a message is a sequence of tokens, the empty *)
(*     string being << >>.                                                 *)
(***************************************************************************)
EXTENDS Integers, Sequences, FiniteSets, TLC

VARIABLES status, issues, call, task

vars == <<status, issues, call, task>>

(***************************************************************************)
(* Bounds of the model.                                                    *)
(***************************************************************************)
MaxLen == 3
MaxPairs == 2
MaxMaps == 2
MaxIssues == 2

(***************************************************************************)
(* Optional arguments.                                                     *)
(***************************************************************************)
None == {}
Some(x) == {x}
Given(o) == o # {}
The(o) == CHOOSE x \in o : TRUE

(***************************************************************************)
(* Result algebra.                                                         *)
(***************************************************************************)
Undefined == "undefined"
Values == {"u", "v"}

INVALID == [status |-> "aborted"]
DIRTY(v) == [status |-> "dirty", value |-> v]
OK(v) == [status |-> "valid", value |-> v]

isAborted(x) == x.status = "aborted"
isDirty(x) == x.status = "dirty"
isValidOrDirty(x) == x.status = "valid" \/ x.status = "dirty"

isValid(x) == x.status = "valid"

(***************************************************************************)
(* ParseStatus: value starts "valid"; dirty() and abort().                 *)
(***************************************************************************)
StatusValues == {"valid", "dirty", "aborted"}

dirtyAlways(value) == "dirty"
dirtyNever(value) == value

dirty(value) == IF value = "valid" THEN "dirty" ELSE value

abort(value) == IF value # "aborted" THEN "aborted" ELSE value

(***************************************************************************)
(* mergeArray(status, results, stripInvalidFrom?, minLength?).             *)
(* The loop index i is 0-based as in the code; results[i] is results[i+1]  *)
(* of the sequence.  The loop returns early with INVALID, or falls through *)
(* to the minLength check and the final return.                            *)
(***************************************************************************)
abortsAtNoStripCheck(i, stripInvalidFrom) ==
    Given(stripInvalidFrom) /\ i < The(stripInvalidFrom)
abortsAtOffByOne(i, stripInvalidFrom) ==
    ~Given(stripInvalidFrom) \/ i <= The(stripInvalidFrom)

\* line 105: !strip || i < stripInvalidFrom
abortsAt(i, stripInvalidFrom) ==
    ~Given(stripInvalidFrom) \/ i < The(stripInvalidFrom)

pushFront(arrayValue, v) == <<v>> \o arrayValue

\* line 116: arrayValue.push(s.value)
push(arrayValue, v) == Append(arrayValue, v)

tooShortOffByOne(stripped, minLength, length) ==
    stripped /\ Given(minLength) /\ The(minLength) # 0 /\ length <= The(minLength)

\* line 119: stripped && minLength && arrayValue.length < minLength
tooShort(stripped, minLength, length) ==
    stripped /\ Given(minLength) /\ The(minLength) # 0 /\ length < The(minLength)

\* lines 102-117: the loop from index i on; st is the tracker's value
RECURSIVE mergeArrayLoop(_, _, _, _, _, _)
mergeArrayLoop(st, results, stripInvalidFrom, i, arrayValue, stripped) ==
    IF ~(i < Len(results))
    THEN [returned |-> FALSE, st |-> st, arrayValue |-> arrayValue,
          stripped |-> stripped]
    ELSE LET s == results[i + 1] IN
         IF isAborted(s)
         THEN IF abortsAt(i, stripInvalidFrom)
              THEN [returned |-> TRUE, st |-> st, arrayValue |-> arrayValue,
                    stripped |-> stripped]
              ELSE mergeArrayLoop(dirty(st), results, stripInvalidFrom, i + 1,
                                  arrayValue, TRUE)
         ELSE mergeArrayLoop(IF isDirty(s) THEN dirty(st) ELSE st, results,
                             stripInvalidFrom, i + 1, push(arrayValue, s.value),
                             stripped)

mergeArrayStaleStatus(st, results, stripInvalidFrom, minLength) ==
    LET l == mergeArrayLoop(st, results, stripInvalidFrom, 0, << >>, FALSE) IN
    LET ret == IF l.returned
               THEN INVALID
               ELSE IF tooShort(l.stripped, minLength, Len(l.arrayValue))
                    THEN INVALID
                    ELSE [status |-> st, value |-> l.arrayValue]
    IN [ret |-> ret, st |-> l.st, arrayValue |-> l.arrayValue,
        stripped |-> l.stripped]

\* lines 93-124: the returned result and the tracker's value afterwards
mergeArray(st, results, stripInvalidFrom, minLength) ==
    LET l == mergeArrayLoop(st, results, stripInvalidFrom, 0, << >>, FALSE) IN
    LET ret == IF l.returned
               THEN INVALID
               ELSE IF tooShort(l.stripped, minLength, Len(l.arrayValue))
                    THEN INVALID
                    ELSE [status |-> l.st, value |-> l.arrayValue]
    IN [ret |-> ret, st |-> l.st, arrayValue |-> l.arrayValue,
        stripped |-> l.stripped]

(***************************************************************************)
(* mergeObjectSync(status, pairs).                                         *)
(***************************************************************************)
EmptyObject == [k \in {} |-> Undefined]

\* finalObject[key] = value
SetProperty(obj, key, value) ==
    [k \in DOMAIN obj \cup {key} |-> IF k = key THEN value ELSE obj[k]]

writesWithProto(pair) ==
    pair.value.value # Undefined \/ pair.alwaysSet = Some(TRUE)
writesIgnoringAlwaysSet(pair) ==
    pair.key.value # "__proto__" /\ pair.value.value # Undefined

\* lines 158-161: key.value !== "__proto__" &&
\*                (typeof value.value !== "undefined" || pair.alwaysSet)
writes(pair) ==
    /\ pair.key.value # "__proto__"
    /\ (pair.value.value # Undefined \/ pair.alwaysSet = Some(TRUE))

RECURSIVE mergeObjectLoopMarkingFirst(_, _, _, _)
mergeObjectLoopMarkingFirst(st, pairs, n, finalObject) ==
    IF n > Len(pairs)
    THEN [returned |-> FALSE, st |-> st, finalObject |-> finalObject]
    ELSE LET pair == pairs[n]
             key == pair.key
             value == pair.value
             st1 == IF key.status = "dirty" THEN dirty(st) ELSE st
             st2 == IF value.status = "dirty" THEN dirty(st1) ELSE st1
         IN
         IF key.status = "aborted" \/ value.status = "aborted"
         THEN [returned |-> TRUE, st |-> st2, finalObject |-> finalObject]
         ELSE mergeObjectLoopMarkingFirst(st2, pairs, n + 1,
                     IF writes(pair)
                     THEN SetProperty(finalObject, key.value, value.value)
                     ELSE finalObject)

\* lines 151-164: the loop from the pair at position n (1-based) on
RECURSIVE mergeObjectLoop(_, _, _, _)
mergeObjectLoop(st, pairs, n, finalObject) ==
    IF n > Len(pairs)
    THEN [returned |-> FALSE, st |-> st, finalObject |-> finalObject]
    ELSE LET pair == pairs[n]
             key == pair.key
             value == pair.value
         IN
         IF key.status = "aborted"
         THEN [returned |-> TRUE, st |-> st, finalObject |-> finalObject]
         ELSE IF value.status = "aborted"
         THEN [returned |-> TRUE, st |-> st, finalObject |-> finalObject]
         ELSE LET st1 == IF key.status = "dirty" THEN dirty(st) ELSE st
                  st2 == IF value.status = "dirty" THEN dirty(st1) ELSE st1
              IN mergeObjectLoop(st2, pairs, n + 1,
                     IF writes(pair)
                     THEN SetProperty(finalObject, key.value, value.value)
                     ELSE finalObject)

\* lines 142-167
mergeObjectSync(st, pairs) ==
    LET l == mergeObjectLoop(st, pairs, 1, EmptyObject) IN
    LET ret == IF l.returned
               THEN INVALID
               ELSE [status |-> l.st, value |-> l.finalObject]
    IN [ret |-> ret, st |-> l.st, finalObject |-> l.finalObject]

(***************************************************************************)
(* Issue factory: makeIssue and addIssueToContext.                         *)
(* An error map is a function (issue, {data, defaultError}) -> {message}   *)
(* supplied from outside; the model has four of them, named, with the      *)
(* behaviours a map can have towards defaultError: ignore it ("en", the    *)
(* default map of locales/en.ts), extend it ("wrapA", "wrapB") or pass it  *)
(* through ("pass").                                                       *)
(***************************************************************************)
defaultErrorMap == "en"
ErrorMaps == {"en", "wrapA", "wrapB", "pass"}

\* map(fullIssue, { data, defaultError }).message
mapMessage(map, fullIssue, ctx) ==
    CASE map = "en" -> <<"Invalid input">>
      [] map = "wrapA" -> Append(ctx.defaultError, "A")
      [] map = "wrapB" -> Append(ctx.defaultError, "B")
      [] map = "pass" -> ctx.defaultError

\* .filter((m) => !!m): the maps that are there, in order
filterMaps(errorMaps) ==
    LET there(m) == Given(m) IN
    LET kept == SelectSeq(errorMaps, there) IN
    [n \in 1..Len(kept) |-> The(kept[n])]

notReversed(maps) == maps

\* .slice().reverse()
reverse(maps) == [n \in 1..Len(maps) |-> maps[Len(maps) + 1 - n]]

hasMessageIfNotEmpty(issueData) ==
    Given(issueData.message) /\ The(issueData.message) # << >>

\* line 19: issueData.message !== undefined
hasMessage(issueData) == Given(issueData.message)

\* lines 32-34: the loop over maps from position n on; invoked is the list
\* of the invocations made so far, each with the map, the defaultError it
\* was given and the message it returned
RECURSIVE applyMaps(_, _, _, _, _, _)
applyMaps(maps, n, fullIssue, data, errorMessage, invoked) ==
    IF n > Len(maps)
    THEN [errorMessage |-> errorMessage, invoked |-> invoked]
    ELSE LET message == mapMessage(maps[n], fullIssue,
                            [data |-> data, defaultError |-> errorMessage])
         IN applyMaps(maps, n + 1, fullIssue, data, message,
                Append(invoked, [map |-> maps[n], defaultError |-> errorMessage,
                                 message |-> message]))

\* lines 6-41: the issue built, and the invocations of error maps made
makeIssue(params) ==
    LET issueData == params.issueData
        fullPath == params.path \o
                        (IF Given(issueData.path) THEN The(issueData.path) ELSE << >>)
        fullIssue == [code |-> issueData.code, path |-> fullPath]
    IN
    IF hasMessage(issueData)
    THEN [issue |-> [code |-> issueData.code, path |-> fullPath,
                     message |-> The(issueData.message)],
          invoked |-> << >>]
    ELSE LET maps == reverse(filterMaps(params.errorMaps))
             r == applyMaps(maps, 1, fullIssue, params.data, << >>, << >>)
         IN [issue |-> [code |-> issueData.code, path |-> fullPath,
                        message |-> r.errorMessage],
             invoked |-> r.invoked]

defaultSlotAlways(overrideMap) == Some(defaultErrorMap)

\* line 87: overrideMap === defaultErrorMap ? undefined : defaultErrorMap
defaultSlot(overrideMap) ==
    IF overrideMap = defaultErrorMap THEN None ELSE Some(defaultErrorMap)

\* lines 78-89: the issue addIssueToContext appends; overrideMap is what
\* getErrorMap() returns
addIssueToContext(ctx, issueData, overrideMap) ==
    LET there == filterMaps(<<ctx.common.contextualErrorMap,
                              ctx.schemaErrorMap,
                              Some(overrideMap),
                              defaultSlot(overrideMap)>>)
    IN makeIssue([issueData |-> issueData, data |-> ctx.data, path |-> ctx.path,
                  errorMaps |-> [n \in 1..Len(there) |-> Some(there[n])]])

pushIssueFront(issues_, issue) == <<issue>> \o issues_

\* line 90: ctx.common.issues.push(issue)
pushIssue(issues_, issue) == Append(issues_, issue)

(***************************************************************************)
(* Inputs of the mergers.                                                  *)
(***************************************************************************)
SeqsUpTo(S, n) == UNION {[1..m -> S] : m \in 0..n}

ElementResults == {INVALID} \cup {OK(v) : v \in Values} \cup {DIRTY(v) : v \in Values}
OptIndex == {None} \cup {Some(k) : k \in 0..MaxLen}

KeyResults == {INVALID, OK("a"), OK("b"), OK("__proto__"), DIRTY("a"), DIRTY("__proto__")}
ValueResults == {INVALID, OK("u"), OK(Undefined), DIRTY("v"), DIRTY(Undefined)}
OptBool == {None, Some(FALSE), Some(TRUE)}
SyncPairs == [key : KeyResults, value : ValueResults, alwaysSet : OptBool]

\* A key or value given to mergeObjectAsync is a promise of a result: None
\* until it has settled, Some(r) from then on.  A plain result is a promise
\* that settles before the first await resumes, await treating both alike.
AsyncKeyResults == {INVALID, OK("a"), OK("__proto__"), DIRTY("a")}
AsyncValueResults == {INVALID, OK("u"), OK(Undefined), DIRTY("u")}
AsyncPairs == [key : {None}, value : {None}, alwaysSet : {None, Some(TRUE)}]

(***************************************************************************)
(* Inputs of the issue factory.                                            *)
(***************************************************************************)
OptMap == {None} \cup {Some(m) : m \in ErrorMaps}
IssueDatas ==
    [code : {"custom"},
     path : {None, Some(<<"g">>)},
     message : {None, Some(<< >>), Some(<<"explicit">>)}]
Contexts ==
    [common : [contextualErrorMap : OptMap], schemaErrorMap : OptMap,
     path : {<<"f">>}, data : {"d"}]

(***************************************************************************)
(* State machine: one tracker, the operations applied to it one at a time. *)
(* call describes the operation that has just returned (its arguments,    *)
(* the tracker's value pre before it, its result ret); the caller takes    *)
(* the result (Return) before the next operation, and the tracker is in    *)
(* one merge at a time.  task is the activation of mergeObjectAsync: where *)
(* it is suspended (pc), its pairs with what has settled so far, the       *)
(* position n of the pair of the current iteration, the locals key and     *)
(* syncPairs; first is the position in the diagnostics list of the first   *)
(* issue recorded after the call, kept to tell the issues of this call.    *)
(***************************************************************************)
Idle == [op |-> "none"]
NoTask == [pc |-> "none"]

Init ==
    /\ status = "valid"
    /\ issues = << >>
    /\ call = Idle
    /\ task = NoTask

\* status.dirty(), by the caller of the merges, between them
MarkDirty ==
    /\ call = Idle
    /\ task = NoTask
    /\ status' = dirty(status)
    /\ call' = [op |-> "dirty", pre |-> status]
    /\ UNCHANGED <<issues, task>>

\* status.abort(), by the caller of the merges, between them
MarkAborted ==
    /\ call = Idle
    /\ task = NoTask
    /\ status' = abort(status)
    /\ call' = [op |-> "abort", pre |-> status]
    /\ UNCHANGED <<issues, task>>

\* mergeArray(status, results, stripInvalidFrom, minLength); arrayValue and
\* stripped are the locals of the call when it returns
MergeArray ==
    /\ call = Idle
    /\ task = NoTask
    /\ \E results \in SeqsUpTo(ElementResults, MaxLen),
          stripInvalidFrom \in OptIndex, minLength \in OptIndex :
          LET m == mergeArray(status, results, stripInvalidFrom, minLength) IN
          /\ status' = m.st
          /\ call' = [op |-> "mergeArray", pre |-> status, results |-> results,
                      stripInvalidFrom |-> stripInvalidFrom,
                      minLength |-> minLength, arrayValue |-> m.arrayValue,
                      stripped |-> m.stripped, ret |-> m.ret]
    /\ UNCHANGED <<issues, task>>

\* mergeObjectSync(status, pairs); finalObject is the local of the call when
\* it returns
MergeObjectSync ==
    /\ call = Idle
    /\ task = NoTask
    /\ \E pairs \in SeqsUpTo(SyncPairs, MaxPairs) :
          LET m == mergeObjectSync(status, pairs) IN
          /\ status' = m.st
          /\ call' = [op |-> "mergeObjectSync", pre |-> status, pairs |-> pairs,
                      finalObject |-> m.finalObject, ret |-> m.ret]
    /\ UNCHANGED <<issues, task>>

pushPairFront(syncPairs, key, value) ==
    <<[key |-> key, value |-> value, alwaysSet |-> None]>> \o syncPairs

\* lines 134-137: syncPairs.push({ key, value })
pushPair(syncPairs, key, value) ==
    Append(syncPairs, [key |-> key, value |-> value, alwaysSet |-> None])

\* line 139: return mergeObjectSync(status, syncPairs), the activation ends
FinishAsync(pairs, syncPairs) ==
    LET m == mergeObjectSync(status, syncPairs) IN
    /\ status' = m.st
    /\ call' = [op |-> "mergeObjectAsync", pre |-> status, pairs |-> pairs,
                syncPairs |-> syncPairs, finalObject |-> m.finalObject,
                ret |-> m.ret]
    /\ task' = NoTask

\* mergeObjectAsync(status, pairs) is called and runs to its first await
\* (line 132), or to its end when pairs is empty
CallMergeObjectAsync ==
    /\ call = Idle
    /\ task = NoTask
    /\ \E pairs \in SeqsUpTo(AsyncPairs, MaxPairs) :
          IF pairs = << >>
          THEN FinishAsync(pairs, << >>)
          ELSE /\ task' = [pc |-> "awaitKey", pairs |-> pairs, n |-> 1,
                           key |-> None, syncPairs |-> << >>,
                           first |-> Len(issues) + 1]
               /\ UNCHANGED <<status, call>>
    /\ UNCHANGED issues

\* a promise among the pairs settles, to any result
Settle ==
    /\ task # NoTask
    /\ \E n \in 1..Len(task.pairs) :
          \/ /\ task.pairs[n].key = None
             /\ \E r \in AsyncKeyResults :
                   task' = [task EXCEPT !.pairs[n].key = Some(r)]
          \/ /\ task.pairs[n].value = None
             /\ \E r \in AsyncValueResults :
                   task' = [task EXCEPT !.pairs[n].value = Some(r)]
    /\ UNCHANGED <<status, issues, call>>

ResumeKeyOnValue ==
    /\ call = Idle
    /\ task.pc = "awaitKey"
    /\ task.pairs[task.n].value # None
    /\ task' = [task EXCEPT !.pc = "awaitValue",
                            !.key = task.pairs[task.n].value]
    /\ UNCHANGED <<status, issues, call>>

\* line 132: const key = await pair.key resumes, up to await pair.value
ResumeKey ==
    /\ call = Idle
    /\ task.pc = "awaitKey"
    /\ task.pairs[task.n].key # None
    /\ task' = [task EXCEPT !.pc = "awaitValue",
                            !.key = task.pairs[task.n].key]
    /\ UNCHANGED <<status, issues, call>>

ResumeValueShortCircuit ==
    /\ call = Idle
    /\ task.pc = "awaitValue"
    /\ task.pairs[task.n].value # None
    /\ LET value == The(task.pairs[task.n].value)
           syncPairs == pushPair(task.syncPairs, The(task.key), value)
       IN IF task.n < Len(task.pairs) /\ ~isAborted(value)
          THEN /\ task' = [task EXCEPT !.pc = "awaitKey", !.n = task.n + 1,
                                       !.key = None, !.syncPairs = syncPairs]
               /\ UNCHANGED <<status, call>>
          ELSE FinishAsync(task.pairs, syncPairs)
    /\ UNCHANGED issues

\* line 133: const value = await pair.value resumes; the pair is pushed and
\* the loop goes on to the next await, or ends and the function returns
ResumeValue ==
    /\ call = Idle
    /\ task.pc = "awaitValue"
    /\ task.pairs[task.n].value # None
    /\ LET syncPairs == pushPair(task.syncPairs, The(task.key),
                                 The(task.pairs[task.n].value))
       IN IF task.n < Len(task.pairs)
          THEN /\ task' = [task EXCEPT !.pc = "awaitKey", !.n = task.n + 1,
                                       !.key = None, !.syncPairs = syncPairs]
               /\ UNCHANGED <<status, call>>
          ELSE FinishAsync(task.pairs, syncPairs)
    /\ UNCHANGED issues

\* the caller takes the result of the last operation
Return ==
    /\ call # Idle
    /\ call' = Idle
    /\ UNCHANGED <<status, issues, task>>

\* makeIssue(params), called directly, while the run can still record
MakeIssue ==
    /\ call = Idle
    /\ Len(issues) < MaxIssues
    /\ \E issueData \in IssueDatas, errorMaps \in SeqsUpTo(OptMap, MaxMaps) :
          LET params == [issueData |-> issueData, data |-> "d", path |-> <<"f">>,
                         errorMaps |-> errorMaps]
              m == makeIssue(params)
          IN call' = [op |-> "makeIssue", issueData |-> issueData,
                      path |-> params.path, errorMaps |-> errorMaps,
                      invoked |-> m.invoked, issue |-> m.issue]
    /\ UNCHANGED <<status, issues, task>>

\* addIssueToContext(ctx, issueData); issues is ctx.common.issues
AddIssueToContext ==
    /\ call = Idle
    /\ Len(issues) < MaxIssues
    /\ \E ctx \in Contexts, issueData \in IssueDatas, overrideMap \in ErrorMaps :
          LET m == addIssueToContext(ctx, issueData, overrideMap) IN
          /\ issues' = pushIssue(issues, m.issue)
          /\ call' = [op |-> "addIssueToContext", issueData |-> issueData,
                      path |-> ctx.path,
                      errorMaps |-> <<ctx.common.contextualErrorMap,
                                      ctx.schemaErrorMap, Some(overrideMap),
                                      IF overrideMap = defaultErrorMap
                                      THEN None ELSE Some(defaultErrorMap)>>,
                      invoked |-> m.invoked, issue |-> m.issue]
    /\ UNCHANGED <<status, task>>

Next ==
    \/ MarkDirty
    \/ MarkAborted
    \/ MergeArray
    \/ MergeObjectSync
    \/ Return

Spec == Init /\ [][Next]_vars

\* the object mergers, synchronous and asynchronous
NextAsync ==
    \/ MarkDirty
    \/ MarkAborted
    \/ MergeObjectSync
    \/ CallMergeObjectAsync
    \/ Settle
    \/ ResumeKey
    \/ ResumeValue
    \/ Return

SpecAsync == Init /\ [][NextAsync]_vars

\* mergeObjectAsync on its own, with the scheduling of an async function:
\* a continuation whose promise has settled is run (the job queue is served)
NextAwait ==
    \/ CallMergeObjectAsync
    \/ Settle
    \/ ResumeKey
    \/ ResumeValue
    \/ Return

SpecAwaitFair ==
    Init /\ [][NextAwait]_vars /\ WF_vars(ResumeKey) /\ WF_vars(ResumeValue)

\* the issue factory on its own
NextIssue ==
    \/ MakeIssue
    \/ AddIssueToContext
    \/ Return

SpecIssue == Init /\ [][NextIssue]_vars

(***************************************************************************)
(* A validation run: the validators of a composite record issues in the    *)
(* shared diagnostics list and merge the results of their children.  The   *)
(* child validators behind the promises given to mergeObjectAsync were     *)
(* started by the caller when it built the pairs; each runs on its own     *)
(* until its promise settles, and may record issues while it runs.         *)
(***************************************************************************)
RunElementResults == {INVALID, OK("u"), DIRTY("v")}
RunPairs == [key : {OK("a")}, value : {INVALID, OK("u"), DIRTY("v")},
             alwaysSet : {None}]

\* the paths of the validators that are running and record issues: the
\* validators of the fields whose value has not settled (path: the position
\* of the field), or the caller itself between two merges
Running ==
    IF task = NoTask
    THEN {<<"f">>}
    ELSE {<<"f", n>> : n \in {m \in 1..Len(task.pairs) : task.pairs[m].value = None}}

\* addIssueToContext(ctx, issueData) by a running validator, ctx its context
RecordIssue ==
    /\ call = Idle
    /\ Len(issues) < MaxIssues
    /\ \E path \in Running :
          LET ctx == [common |-> [contextualErrorMap |-> None],
                      schemaErrorMap |-> None, path |-> path, data |-> "d"]
              issueData == [code |-> "custom", path |-> None, message |-> None]
              m == addIssueToContext(ctx, issueData, defaultErrorMap)
          IN /\ issues' = pushIssue(issues, m.issue)
             /\ call' = [op |-> "addIssueToContext", issueData |-> issueData,
                         path |-> path,
                         errorMaps |-> <<None, None, Some(defaultErrorMap), None>>,
                         invoked |-> m.invoked, issue |-> m.issue]
    /\ UNCHANGED <<status, task>>

\* the promise of a running child settles, to the result of its validator
ChildSettles ==
    /\ call = Idle
    /\ task # NoTask
    /\ \E n \in 1..Len(task.pairs) :
          \/ /\ task.pairs[n].key = None
             /\ task' = [task EXCEPT !.pairs[n].key = Some(OK("a"))]
          \/ /\ task.pairs[n].value = None
             /\ \E r \in RunElementResults :
                   task' = [task EXCEPT !.pairs[n].value = Some(r)]
    /\ UNCHANGED <<status, issues, call>>

\* mergeArray by the validator of an array, on its elements' results
RunMergeArray ==
    /\ call = Idle
    /\ task = NoTask
    /\ \E results \in SeqsUpTo(RunElementResults, MaxLen),
          stripInvalidFrom \in {None, Some(1)}, minLength \in {None, Some(2)} :
          LET m == mergeArray(status, results, stripInvalidFrom, minLength) IN
          /\ status' = m.st
          /\ call' = [op |-> "mergeArray", pre |-> status, results |-> results,
                      stripInvalidFrom |-> stripInvalidFrom,
                      minLength |-> minLength, arrayValue |-> m.arrayValue,
                      stripped |-> m.stripped, ret |-> m.ret]
    /\ UNCHANGED <<issues, task>>

\* mergeObjectSync by the validator of an object, on its fields' results
RunMergeObjectSync ==
    /\ call = Idle
    /\ task = NoTask
    /\ \E pairs \in SeqsUpTo(RunPairs, MaxPairs) :
          LET m == mergeObjectSync(status, pairs) IN
          /\ status' = m.st
          /\ call' = [op |-> "mergeObjectSync", pre |-> status, pairs |-> pairs,
                      finalObject |-> m.finalObject, ret |-> m.ret]
    /\ UNCHANGED <<issues, task>>

NextRun ==
    \/ RecordIssue
    \/ RunMergeArray
    \/ RunMergeObjectSync
    \/ CallMergeObjectAsync
    \/ ChildSettles
    \/ ResumeKey
    \/ ResumeValue
    \/ Return

SpecRun == Init /\ [][NextRun]_vars

TypeOK ==
    /\ status \in StatusValues
    /\ call.op \in {"none", "dirty", "abort", "mergeArray", "mergeObjectSync",
                   "mergeObjectAsync", "makeIssue", "addIssueToContext"}
    /\ task.pc \in {"none", "awaitKey", "awaitValue"}
    /\ Len(issues) <= MaxIssues

(***************************************************************************)
(* Vocabulary of the properties, stated on the inputs of a call and not    *)
(* through the operators above.                                            *)
(***************************************************************************)
Rank(s) == CASE s = "valid" -> 0 [] s = "dirty" -> 1 [] s = "aborted" -> 2

\* 0-based indices of the elements of an array of child results
Indices(results) == 0 .. (Len(results) - 1)
At(results, i) == results[i + 1]
FailedAt(results, i) == At(results, i).status = "aborted"
PartialAt(results, i) == At(results, i).status = "dirty"
HasFailed(results) == \E i \in Indices(results) : FailedAt(results, i)
HasPartial(results) == \E i \in Indices(results) : PartialAt(results, i)
AllOk(results) == \A i \in Indices(results) : At(results, i).status = "valid"

NotFailed(r) == r.status # "aborted"
\* the values of the elements that are not failed, in input order
RetainedValues(results) ==
    LET kept == SelectSeq(results, NotFailed) IN
    [n \in 1..Len(kept) |-> kept[n].value]

PairFailed(pair) == pair.key.status = "aborted" \/ pair.value.status = "aborted"
PairPartial(pair) == pair.key.status = "dirty" \/ pair.value.status = "dirty"
PairOk(pair) == pair.key.status = "valid" /\ pair.value.status = "valid"

IsArrayCall == call.op = "mergeArray"
IsObjectCall == call.op = "mergeObjectSync"

\* the first failed element of an array that has one
FirstFailed(results) ==
    CHOOSE i \in Indices(results) :
        FailedAt(results, i) /\ \A j \in 0..(i - 1) : ~FailedAt(results, j)

\* stripping from index k happens: no failed element before k, one from k on
Strips(results, stripInvalidFrom) ==
    /\ Given(stripInvalidFrom)
    /\ \A i \in Indices(results) :
           FailedAt(results, i) => i >= The(stripInvalidFrom)
    /\ HasFailed(results)

\* the pairs an object merge goes through: those before the first failed pair
Processed(pairs) ==
    {n \in 1..Len(pairs) : \A m \in 1..n : ~PairFailed(pairs[m])}

Absent(pair) == pair.value.value = Undefined
ShouldWrite(pair) ==
    /\ pair.key.value # "__proto__"
    /\ (~Absent(pair) \/ pair.alwaysSet = Some(TRUE))

\* the object that the processed pairs describe: the keys of the pairs to
\* write, each with the value of the last such pair
Writers(pairs, k) ==
    {n \in Processed(pairs) : ShouldWrite(pairs[n]) /\ pairs[n].key.value = k}
LastWriter(pairs, k) ==
    CHOOSE n \in Writers(pairs, k) : \A m \in Writers(pairs, k) : m <= n
ExpectedObject(pairs) ==
    [k \in {pairs[n].key.value : n \in {m \in Processed(pairs) : ShouldWrite(pairs[m])}}
        |-> pairs[LastWriter(pairs, k)].value.value]

(***************************************************************************)
(* C1.  A merge of child results with at least one partial and no failed   *)
(* one, on a tracker that starts valid, returns status dirty (not valid,   *)
(* not aborted) and leaves the tracker dirty: mergeArray with or without   *)
(* stripping arguments, mergeObjectSync with a partial key or value.       *)
(***************************************************************************)
C1_PartialWithoutFailedIsDirty ==
    /\ (IsArrayCall /\ call.pre = "valid" /\ HasPartial(call.results)
            /\ ~HasFailed(call.results))
        => (call.ret.status = "dirty" /\ status = "dirty")
    /\ (IsObjectCall /\ call.pre = "valid"
            /\ (\E n \in 1..Len(call.pairs) : PairPartial(call.pairs[n]))
            /\ (\A n \in 1..Len(call.pairs) : ~PairFailed(call.pairs[n])))
        => (call.ret.status = "dirty" /\ status = "dirty")

C1_Witness ==
    /\ IsArrayCall /\ call.pre = "valid"
    /\ Given(call.stripInvalidFrom) /\ Given(call.minLength)
    /\ Len(call.results) >= 2
    /\ PartialAt(call.results, 1) /\ ~HasFailed(call.results)
    /\ call.ret.status = "dirty"

(***************************************************************************)
(* C2.  A merge of child results that are all ok, on a tracker that starts *)
(* valid, returns status valid and leaves the tracker valid; the array     *)
(* value is the children's values in input order, the object is the one    *)
(* the pairs describe, later pairs overwriting earlier ones.               *)
(***************************************************************************)
C2_AllOkIsValidInOrder ==
    /\ (IsArrayCall /\ call.pre = "valid" /\ AllOk(call.results))
        => /\ call.ret.status = "valid"
           /\ Len(call.ret.value) = Len(call.results)
           /\ \A n \in 1..Len(call.results) :
                  call.ret.value[n] = call.results[n].value
           /\ status = "valid"
    /\ (IsObjectCall /\ call.pre = "valid"
            /\ \A n \in 1..Len(call.pairs) : PairOk(call.pairs[n]))
        => /\ call.ret.status = "valid"
           /\ call.ret.value = ExpectedObject(call.pairs)
           /\ status = "valid"

C2_Witness ==
    /\ IsArrayCall /\ call.pre = "valid" /\ AllOk(call.results)
    /\ Len(call.results) = MaxLen
    /\ call.results[1].value # call.results[2].value
    /\ call.ret.status = "valid"

(***************************************************************************)
(* C3.  mergeArray without stripInvalidFrom on an array with a failed      *)
(* element returns INVALID, and the elements after the first failed one do *)
(* not matter: the tracker is left as the elements before it set it.       *)
(***************************************************************************)
C3_FailedAbortsWithoutStripping ==
    (IsArrayCall /\ ~Given(call.stripInvalidFrom) /\ HasFailed(call.results))
        => /\ call.ret = INVALID
           /\ status =
                IF /\ call.pre = "valid"
                   /\ \E j \in 0..(FirstFailed(call.results) - 1) :
                          PartialAt(call.results, j)
                THEN "dirty" ELSE call.pre

C3_Witness ==
    /\ IsArrayCall /\ ~Given(call.stripInvalidFrom)
    /\ Len(call.results) = 3
    /\ FailedAt(call.results, 1) /\ PartialAt(call.results, 2)
    /\ ~PartialAt(call.results, 0)
    /\ call.pre = "valid" /\ status = "valid"
    /\ call.ret = INVALID

(***************************************************************************)
(* C4.  mergeArray with stripInvalidFrom = k: a failed element at an index *)
(* below k makes the merge return INVALID; otherwise the failed elements   *)
(* (all at k or after) are left out of the assembled array, which holds    *)
(* the other values in input order with no placeholder, and the tracker is *)
(* marked dirty: it is dirty afterwards (a tracker that was aborted before *)
(* the call stays aborted, dirty() being a no-op on it).                   *)
(***************************************************************************)
C4_StrippingFromIndex ==
    (IsArrayCall /\ Given(call.stripInvalidFrom)) =>
        LET k == The(call.stripInvalidFrom) IN
        /\ (\E i \in Indices(call.results) : i < k /\ FailedAt(call.results, i))
            => call.ret = INVALID
        /\ Strips(call.results, call.stripInvalidFrom)
            => /\ call.arrayValue = RetainedValues(call.results)
               /\ Len(call.arrayValue) < Len(call.results)
               /\ ("value" \in DOMAIN call.ret
                      => call.ret.value = RetainedValues(call.results))
               /\ status = IF call.pre = "aborted" THEN "aborted" ELSE "dirty"

C4_Witness ==
    /\ IsArrayCall /\ call.stripInvalidFrom = Some(1)
    /\ Len(call.results) = 3
    /\ AllOk(SubSeq(call.results, 1, 1)) /\ FailedAt(call.results, 1)
    /\ ~FailedAt(call.results, 2)
    /\ call.pre = "valid" /\ status = "dirty"
    /\ call.ret = [status |-> "dirty",
                   value |-> <<call.results[1].value, call.results[3].value>>]

(***************************************************************************)
(* C5.  After mergeArray stripped a failed element, a minLength m decides: *)
(* fewer than m retained values, the merge returns INVALID; m or more, it  *)
(* returns the retained values with the tracker's status, which is dirty   *)
(* for a tracker that started valid (and not aborted unless the tracker    *)
(* was aborted before the call).  When nothing was stripped, minLength     *)
(* causes no failure: the merge returns INVALID only for a failed element. *)
(***************************************************************************)
C5_MinLengthAfterStripping ==
    IsArrayCall =>
        LET retained == RetainedValues(call.results)
            strips == Strips(call.results, call.stripInvalidFrom)
        IN
        /\ (strips /\ Given(call.minLength)
                /\ Len(retained) < The(call.minLength))
            => call.ret = INVALID
        /\ (strips /\ Given(call.minLength)
                /\ Len(retained) >= The(call.minLength))
            => /\ "value" \in DOMAIN call.ret
               /\ call.ret.value = retained
               /\ call.ret.status = status
               /\ call.pre = "valid" => call.ret.status = "dirty"
               /\ call.pre # "aborted" => call.ret.status # "aborted"
        /\ ~strips => (call.ret = INVALID <=> HasFailed(call.results))

C5_Witness ==
    /\ IsArrayCall /\ Strips(call.results, call.stripInvalidFrom)
    /\ Given(call.minLength)
    /\ Len(RetainedValues(call.results)) >= 1
    /\ Len(RetainedValues(call.results)) < The(call.minLength)
    /\ call.pre = "valid"
    /\ call.ret = INVALID

(***************************************************************************)
(* C7.  In mergeObjectSync a pair with an absent (undefined) value puts    *)
(* its key in the object only when its alwaysSet is true; with alwaysSet   *)
(* false or not given it writes nothing and what an earlier pair wrote     *)
(* under that key stays; a pair with a value is written unless its key is  *)
(* "__proto__".  Stated pair by pair on the object before and after it.    *)
(***************************************************************************)
ObjectAfter(n) == mergeObjectSync(call.pre, SubSeq(call.pairs, 1, n)).finalObject

C7_AbsentValueNeedsAlwaysSet ==
    IsObjectCall =>
        /\ call.finalObject = ObjectAfter(Cardinality(Processed(call.pairs)))
        /\ \A n \in Processed(call.pairs) :
            LET pair == call.pairs[n]
                k == pair.key.value
                before == ObjectAfter(n - 1)
                after == ObjectAfter(n)
                written(v) ==
                    /\ DOMAIN after = DOMAIN before \cup {k}
                    /\ after[k] = v
                    /\ \A j \in DOMAIN before \ {k} : after[j] = before[j]
            IN
            /\ (Absent(pair) /\ pair.alwaysSet # Some(TRUE)) => after = before
            /\ (Absent(pair) /\ pair.alwaysSet = Some(TRUE) /\ k # "__proto__")
                => written(Undefined)
            /\ (~Absent(pair) /\ k # "__proto__") => written(pair.value.value)

C7_Witness ==
    /\ IsObjectCall /\ Len(call.pairs) = 2
    /\ Processed(call.pairs) = {1, 2}
    /\ ~Absent(call.pairs[1])
    /\ Absent(call.pairs[2]) /\ call.pairs[2].alwaysSet = Some(FALSE)
    /\ call.pairs[1].key.value = "a" /\ call.pairs[2].key.value = "a"
    /\ call.ret.value = [k \in {"a"} |-> call.pairs[1].value.value]

(***************************************************************************)
(* C8.  The tracker never moves backward in valid < dirty < aborted, under *)
(* dirty(), abort() and the merges: dirty() takes valid to dirty and       *)
(* leaves dirty and aborted alone (so dirty() after abort() leaves         *)
(* aborted), abort() takes every value to aborted.                         *)
(***************************************************************************)
C8_TrackerMonotone ==
    /\ status = "valid"
    /\ [](call.op = "dirty" =>
            status = IF call.pre = "valid" THEN "dirty" ELSE call.pre)
    /\ [](call.op = "abort" => status = "aborted")
    /\ [][Rank(status') >= Rank(status)]_vars

C8_Witness ==
    /\ call.op = "dirty" /\ call.pre = "aborted" /\ status = "aborted"

(***************************************************************************)
(* C9.  An issue without an explicit message gets its message from the     *)
(* installed error maps in priority order contextual > schema > override > *)
(* default: the maps are invoked lowest priority first, each is given as   *)
(* defaultError the message the one invoked before it returned, the        *)
(* message of the issue is what the highest-priority installed map         *)
(* returned, and a slot with no map is skipped.  call.errorMaps lists the  *)
(* slots in priority order.                                                *)
(***************************************************************************)
IsIssueCall == call.op \in {"makeIssue", "addIssueToContext"}

\* positions of the slots that hold a map, highest priority first
InstalledSlots == {n \in 1..Len(call.errorMaps) : call.errorMaps[n] # None}
\* the slot of the k-th invocation: the k-th installed slot from the end
SlotOfInvocation(k) ==
    CHOOSE n \in InstalledSlots :
        Cardinality({m \in InstalledSlots : m > n}) = k - 1

C9_MessageResolutionOrder ==
    (IsIssueCall /\ call.issueData.message = None) =>
        /\ Len(call.invoked) = Cardinality(InstalledSlots)
        /\ \A k \in 1..Len(call.invoked) :
              /\ call.invoked[k].map = The(call.errorMaps[SlotOfInvocation(k)])
              /\ k > 1 => call.invoked[k].defaultError = call.invoked[k - 1].message
        /\ InstalledSlots # {}
            => call.issue.message = call.invoked[Len(call.invoked)].message
        /\ call.op = "addIssueToContext"
            => /\ issues[Len(issues)] = call.issue
               /\ call.errorMaps[4] # None
                    => call.invoked[1].map = defaultErrorMap
               /\ (call.errorMaps[1] # None /\ call.errorMaps[2] = None
                        /\ call.errorMaps[3] = Some(defaultErrorMap))
                    => /\ Len(call.invoked) = 2
                       /\ call.invoked[1].map = defaultErrorMap
                       /\ call.invoked[2].map = The(call.errorMaps[1])
                       /\ call.invoked[2].defaultError = call.invoked[1].message
                       /\ call.issue.message = call.invoked[2].message

C9_Witness ==
    /\ call.op = "addIssueToContext" /\ call.issueData.message = None
    /\ call.errorMaps = <<Some("wrapA"), None, Some("wrapB"), Some("en")>>
    /\ call.issue.message = <<"Invalid input", "B", "A">>
    /\ issues[Len(issues)].message = <<"Invalid input", "B", "A">>

(***************************************************************************)
(* C10.  An issue whose data carries an explicit message (the empty string *)
(* included) is built and recorded with exactly that message, whatever     *)
(* maps are installed, and no error map is invoked for it.                 *)
(***************************************************************************)
C10_ExplicitMessageVerbatim ==
    (IsIssueCall /\ call.issueData.message # None) =>
        /\ call.issue.message = The(call.issueData.message)
        /\ call.invoked = << >>
        /\ call.op = "addIssueToContext"
            => issues[Len(issues)].message = The(call.issueData.message)

C10_Witness ==
    /\ call.op = "addIssueToContext"
    /\ call.issueData.message = Some(<<"explicit">>)
    /\ call.errorMaps = <<Some("pass"), Some("wrapA"), Some("wrapB"), Some("en")>>
    /\ issues[Len(issues)].message = <<"explicit">>

(***************************************************************************)
(* C6.  No object merge writes a property named "__proto__": the object    *)
(* mergeObjectSync and mergeObjectAsync build, and the one they return,    *)
(* never has that property, whatever the pairs; the pair with that key is  *)
(* dropped and the other pairs are written all the same: mergeObjectSync   *)
(* builds the object the other pairs describe, and with mergeObjectAsync   *)
(* every other pair that has a value has its key in the object.            *)
(***************************************************************************)
\* the pairs of an asynchronous call with what they settled to
Resolved(pairs) ==
    [n \in 1..Len(pairs) |->
        [key |-> The(pairs[n].key), value |-> The(pairs[n].value),
         alwaysSet |-> pairs[n].alwaysSet]]

C6_NeverWritesProto ==
    /\ call.op \in {"mergeObjectSync", "mergeObjectAsync"}
        => /\ "__proto__" \notin DOMAIN call.finalObject
           /\ "value" \in DOMAIN call.ret => call.ret.value = call.finalObject
    /\ call.op = "mergeObjectSync"
        => call.finalObject = ExpectedObject(call.pairs)
    /\ call.op = "mergeObjectAsync"
        => LET pairs == Resolved(call.pairs) IN
           \A n \in Processed(pairs) :
               (pairs[n].key.value # "__proto__" /\ ~Absent(pairs[n]))
                   => pairs[n].key.value \in DOMAIN call.finalObject

C6_Witness ==
    /\ call.op = "mergeObjectAsync" /\ Len(call.pairs) = 2
    /\ Resolved(call.pairs)[1].key = OK("__proto__")
    /\ Resolved(call.pairs)[1].value = OK("u")
    /\ Resolved(call.pairs)[2].key = OK("a")
    /\ call.ret = [status |-> "valid", value |-> [k \in {"a"} |-> "u"]]

(***************************************************************************)
(* C11.  As claimed: during a call of mergeObjectAsync the issues of the   *)
(* fields are in the diagnostics list in pair order, and an issue of a     *)
(* field is appended while no later field's value has resolved.            *)
(***************************************************************************)
\* the field whose validator recorded the issue at position i
FieldOf(i) == issues[i].path[2]
\* a step in which a running child of the call records an issue
ChildRecords ==
    task # NoTask /\ call.op = "none" /\ call'.op = "addIssueToContext"

TakenInOrder(syncPairs, pairs) ==
    /\ Len(syncPairs) <= Len(pairs)
    /\ \A n \in 1..Len(syncPairs) :
          /\ pairs[n].key # None /\ pairs[n].value # None
          /\ syncPairs[n].key = The(pairs[n].key)
          /\ syncPairs[n].value = The(pairs[n].value)

IsMergeCall == call.op \in {"mergeArray", "mergeObjectSync", "mergeObjectAsync"}
HasValue(r) == "value" \in DOMAIN r

C12_FailedHasNoValue ==
    (IsMergeCall /\ call.ret.status = "aborted") => ~HasValue(call.ret)

(***************************************************************************)
(* C13.  As claimed: isAborted is true exactly for failed results, isDirty *)
(* exactly for partial ones, and isValid for ok and partial ones alike,    *)
(* on every child result given to mergeArray and on what it returns.       *)
(***************************************************************************)
IsOk(r) == HasValue(r) /\ r = OK(r.value)
IsPartial(r) == HasValue(r) /\ r = DIRTY(r.value)
IsFailed(r) == r.status = "aborted"

\* P holds of the results at hand when mergeArray has returned: those of
\* its children and its own
OfResultsAtHand(P(_)) ==
    IsArrayCall =>
        /\ \A n \in 1..Len(call.results) : P(call.results[n])
        /\ P(call.ret)

SucceededForOkAndPartial(r) ==
    /\ isAborted(r) <=> IsFailed(r)
    /\ isDirty(r) <=> IsPartial(r)
    /\ isValid(r) <=> (IsOk(r) \/ IsPartial(r))

C13_SucceededForOkAndPartial == OfResultsAtHand(SucceededForOkAndPartial)

(***************************************************************************)
(* C13, amended.  The three predicates partition the results: exactly one  *)
(* holds of each; isAborted exactly of failed results, isDirty exactly of  *)
(* partial ones, isValid exactly of ok ones (false of partial and failed). *)
(***************************************************************************)
PredicatesPartition(r) ==
    /\ isAborted(r) <=> IsFailed(r)
    /\ isDirty(r) <=> IsPartial(r)
    /\ isValid(r) <=> IsOk(r)
    /\ IsOk(r) \/ IsPartial(r) \/ IsFailed(r)
    /\ ~(isAborted(r) /\ isDirty(r)) /\ ~(isAborted(r) /\ isValid(r))
    /\ ~(isDirty(r) /\ isValid(r))

C13_PredicatesPartition == OfResultsAtHand(PredicatesPartition)

C13_Witness ==
    /\ IsArrayCall
    /\ call.results = <<OK("u"), DIRTY("v"), INVALID>>
    /\ isValid(call.results[1]) /\ ~isValid(call.results[2])
    /\ isDirty(call.results[2]) /\ isAborted(call.results[3])
    /\ ~isValid(call.ret)

(***************************************************************************)
(* C14.  mergeObjectAsync is mergeObjectSync on the resolved inputs: when  *)
(* it returns, its result and the tracker are those mergeObjectSync gives, *)
(* from the tracker's value at the return, on the triples of the call with *)
(* each promise replaced by what it resolved to, alwaysSet included.       *)
(***************************************************************************)
C14_AsyncIsSyncOnResolved ==
    call.op = "mergeObjectAsync" =>
        LET m == mergeObjectSync(call.pre, Resolved(call.pairs)) IN
        /\ call.ret = m.ret
        /\ status = m.st

HasFailedPair(pairs) == \E n \in 1..Len(pairs) : PairFailed(pairs[n])

C16_ObjectShortCircuit ==
    (IsObjectCall /\ HasFailedPair(call.pairs)) =>
        /\ call.ret = INVALID
        /\ status = IF /\ call.pre = "valid"
                       /\ \E n \in Processed(call.pairs) : PairPartial(call.pairs[n])
                    THEN "dirty"
                    ELSE call.pre

C16_Witness ==
    /\ IsObjectCall /\ call.pre = "valid" /\ Len(call.pairs) = 2
    /\ call.pairs[1].key = DIRTY("a") /\ call.pairs[1].value = INVALID
    /\ call.pairs[2].key = OK("b") /\ call.pairs[2].value = DIRTY("v")
    /\ call.ret = INVALID /\ status = "valid"

(***************************************************************************)
(* C17.  mergeObjectAsync awaits strictly sequentially.  It is suspended   *)
(* at one await at a time, on the key or on the value of the pair at       *)
(* position n: it starts at the key of the first pair, goes from the key   *)
(* of a pair to the value of the same pair only once the key has resolved, *)
(* from the value of a pair to the key of the next pair only once the      *)
(* value has resolved, so that every pair before n is resolved, and it     *)
(* calls mergeObjectSync only once every pair is resolved; the tracker is  *)
(* untouched until then.                                                   *)
(***************************************************************************)
Active == task # NoTask
ResolvedAt(pairs, n) == pairs[n].key # None /\ pairs[n].value # None

\* where an activation stands: every pair before n is resolved and pushed
SequentialSoFar ==
    Active =>
        /\ task.pc \in {"awaitKey", "awaitValue"}
        /\ task.n \in 1..Len(task.pairs)
        /\ \A m \in 1..(task.n - 1) : ResolvedAt(task.pairs, m)
        /\ Len(task.syncPairs) = task.n - 1
        /\ task.pc = "awaitValue" => task.pairs[task.n].key # None

\* the steps of an activation, in the order of the awaits
SequentialStep ==
    /\ (~Active /\ Active') =>
           /\ task'.pc = "awaitKey" /\ task'.n = 1
           /\ status' = status
    /\ (Active /\ Active') =>
           /\ status' = status
           /\ \/ task'.pc = task.pc /\ task'.n = task.n
              \/ /\ task.pc = "awaitKey" /\ task'.pc = "awaitValue"
                 /\ task'.n = task.n
                 /\ task.pairs[task.n].key # None
                 /\ task'.key = task.pairs[task.n].key
              \/ /\ task.pc = "awaitValue" /\ task'.pc = "awaitKey"
                 /\ task'.n = task.n + 1
                 /\ ResolvedAt(task.pairs, task.n)
    /\ (Active /\ ~Active') =>
           /\ task.pc = "awaitValue" /\ task.n = Len(task.pairs)
           /\ \A m \in 1..Len(task.pairs) : ResolvedAt(task.pairs, m)
           /\ call'.op = "mergeObjectAsync"
    /\ (call.op = "none" /\ call'.op = "mergeObjectAsync") =>
           \A m \in 1..Len(call'.pairs) : ResolvedAt(call'.pairs, m)

C17_AwaitsSequentially == []SequentialSoFar /\ [][SequentialStep]_vars

C17_Witness ==
    /\ Active /\ task.pc = "awaitValue" /\ task.n = 1
    /\ Len(task.pairs) = 2
    /\ task.pairs[1].value = None
    /\ ResolvedAt(task.pairs, 2)
    /\ task.syncPairs = << >>

(***************************************************************************)
(* C18.  The diagnostics list is append-only in a validation run: a call   *)
(* of addIssueToContext appends exactly one issue, the one it built, at    *)
(* the end and leaves the earlier entries as they were; no other step, of  *)
(* mergeArray, mergeObjectSync or mergeObjectAsync in particular, changes  *)
(* the list.  So every issue recorded before or during a merge is still in *)
(* the list, at its position, when the merge returns, failed or not.       *)
(***************************************************************************)
Records == call.op = "none" /\ call'.op = "addIssueToContext"

AppendOnlyStep ==
    /\ Records => /\ Len(issues') = Len(issues) + 1
                  /\ issues'[Len(issues')] = call'.issue
    /\ ~Records => issues' = issues
    /\ \A i \in 1..Len(issues) : i <= Len(issues') /\ issues'[i] = issues[i]

C18_DiagnosticsAppendOnly == [][AppendOnlyStep]_vars

C18_Witness ==
    /\ call.op = "mergeObjectAsync" /\ call.ret = INVALID
    /\ Len(issues) = 2
    /\ issues[1].path = <<"f">> /\ issues[2].path = <<"f", 1>>

(***************************************************************************)
(* C19.  mergeObjectAsync completes when every promise among its pairs     *)
(* eventually settles (weak fairness of Settle), with a result of status   *)
(* valid, dirty or aborted; it completes only once every pair has          *)
(* resolved and been pushed, also when an early pair resolved to failed;   *)
(* so, while a promise it has to await is unsettled, it does not complete. *)
(***************************************************************************)
CompletesOnlyResolved ==
    (call.op = "none" /\ call'.op = "mergeObjectAsync") =>
        /\ \A m \in 1..Len(call'.pairs) : ResolvedAt(call'.pairs, m)
        /\ Len(call'.syncPairs) = Len(call'.pairs)
        /\ call'.ret.status \in StatusValues
        /\ ~Active'

C19_CompletesWhenAllResolve ==
    /\ WF_vars(Settle) => (Active ~> call.op = "mergeObjectAsync")
    /\ [][CompletesOnlyResolved]_vars
    /\ [][(Active /\ ~Active') => call'.op = "mergeObjectAsync"]_vars

C19_Witness ==
    /\ call.op = "mergeObjectAsync" /\ Len(call.pairs) = 2
    /\ call.syncPairs[1].key = INVALID
    /\ call.syncPairs[2].value = DIRTY("u")
    /\ call.ret = INVALID

(***************************************************************************)
(* C20.  As claimed: for an issue recorded without an explicit message,    *)
(* each distinct installed policy is invoked exactly once; when the        *)
(* override slot holds the default policy the default policy is invoked    *)
(* once; the first policy invoked is given the empty message.              *)
(***************************************************************************)
RecordsWithoutMessage ==
    call.op = "addIssueToContext" /\ call.issueData.message = None

\* the slots among contextual, schema-bound and override that hold a policy
GivenSlots == {n \in 1..3 : call.errorMaps[n] # None}
\* the policies installed: those slots' and the default policy
InstalledPolicies == {The(call.errorMaps[n]) : n \in GivenSlots} \cup {defaultErrorMap}
Invocations(map) == {k \in 1..Len(call.invoked) : call.invoked[k].map = map}
NoOverride == call.errorMaps[3] = Some(defaultErrorMap)

C20_EachPolicyOnce ==
    RecordsWithoutMessage =>
        /\ \A map \in InstalledPolicies : Cardinality(Invocations(map)) = 1
        /\ \A k \in 1..Len(call.invoked) : call.invoked[k].map \in InstalledPolicies
        /\ NoOverride => Cardinality(Invocations(defaultErrorMap)) = 1
        /\ call.invoked[1].defaultError = << >>

(***************************************************************************)
(* C20, amended.  For an issue recorded without an explicit message, each  *)
(* installed slot is invoked exactly once, lowest priority first: the      *)
(* contextual, schema-bound and override slots that hold a policy, and the *)
(* default slot unless the override slot holds the default policy itself;  *)
(* then the default policy is invoked once for these two slots, not twice. *)
(* A policy installed in several of the other slots is invoked once for    *)
(* each.  The first policy invoked is the default policy and is given the  *)
(* empty message.                                                          *)
(***************************************************************************)
\* the position, among the invocations, of the given slot n of 1..3
InvocationOfSlot(n) ==
    Len(call.invoked) - Cardinality({m \in GivenSlots : m < n})

C20_EachSlotOnce ==
    RecordsWithoutMessage =>
        /\ Len(call.invoked) =
               Cardinality(GivenSlots) + (IF NoOverride THEN 0 ELSE 1)
        /\ \A n \in GivenSlots :
               call.invoked[InvocationOfSlot(n)].map = The(call.errorMaps[n])
        /\ call.invoked[1].map = defaultErrorMap
        /\ call.invoked[1].defaultError = << >>
        /\ (NoOverride /\ GivenSlots = {3}) =>
               Cardinality(Invocations(defaultErrorMap)) = 1

C20_Witness ==
    /\ RecordsWithoutMessage /\ NoOverride
    /\ call.errorMaps[1] = Some("wrapA") /\ call.errorMaps[2] = None
    /\ Len(call.invoked) = 2
    /\ call.invoked[1] = [map |-> "en", defaultError |-> << >>,
                          message |-> <<"Invalid input">>]
    /\ call.invoked[2].map = "wrapA"
    /\ issues[Len(issues)].message = <<"Invalid input", "A">>

====
